---- MODULE Spec2Model ----
(***************************************************************************)
(* Law-to-Code MVP (src/app.py): the DCL parser, the CLEARANCE evaluator,  *)
(* the proof hash and the use-case store, as state machines.               *)
(*                                                                         *)
(* Text is a sequence of one-character strings, so that strip, split,      *)
(* lower, startswith and the int/float grammars are computed character by  *)
(* character as Python computes them.                                      *)
(*                                                                         *)
(* A Python value is a record tagged by its type:                          *)
(*   None   [t |-> "none"]                                                 *)
(*   bool   [t |-> "bool",  b |-> TRUE]                                    *)
(*   int    [t |-> "int",   i |-> 5]                                       *)
(*   float  [t |-> "float", n |-> 7, d |-> 2]   the exact decimal n/d,     *)
(*          d = 0 for inf (n = 1), -inf (n = -1) and nan (n = 0)           *)
(*   str    [t |-> "str",   s |-> <<"h", "i">>]                            *)
(*   list   [t |-> "list",  l |-> <<v1, v2>>]                              *)
(***************************************************************************)
EXTENDS Integers, Sequences, FiniteSets, TLC

VARIABLES
    txt,        \* auto_cast: the text handed to it
    cast_out,   \* auto_cast: its return value once called
    parse_req,  \* dcl_parse: the ParseRequest (law_text, law_title)
    parsed,     \* dcl_parse: the DCLSchema returned once called
    schema,     \* evaluate / clearance_check: req.schema
    data,       \* evaluate: the data record
    evaluated,  \* evaluate: its return value (results, overall) once called
    now,        \* the wall clock read by datetime.now / utcnow
    proofs,     \* clearance_check: the ProofLogs returned so far
    table,      \* the usecases table: a set of rows
    nextId,     \* the table's id sequence
    req,        \* the store request being served
    sessions,   \* the Sessions made by SessionLocal() and their state
    saved,      \* ids in the order their inserts were committed
    listing     \* admin_usecases: the last listing returned

vars == <<txt, cast_out, parse_req, parsed, schema, data, evaluated, now,
          proofs, table, nextId, req, sessions, saved, listing>>

\* Bounds of the model.
MaxLen == 4
MaxLines == 3
MaxRules == 2
MaxTime == 2
MaxChecks == 2
MaxRequests == 3

NotCalled == [t |-> "notcalled"]

-----------------------------------------------------------------------------
(* Python values *)

NoneV == [t |-> "none"]
BoolV(x) == [t |-> "bool", b |-> x]
IntV(x) == [t |-> "int", i |-> x]
StrV(x) == [t |-> "str", s |-> x]
ListV(x) == [t |-> "list", l |-> x]

Abs(x) == IF x < 0 THEN -x ELSE x

RECURSIVE Gcd(_, _)
Gcd(a, b) == IF b = 0 THEN a ELSE Gcd(b, a % b)

\* The float n/d in lowest terms (d > 0).
FloatV(n, d) ==
    LET g == Gcd(Abs(n), d)
    IN  [t |-> "float", n |-> n \div g, d |-> d \div g]

PosInf == [t |-> "float", n |-> 1, d |-> 0]
NegInf == [t |-> "float", n |-> -1, d |-> 0]
NaN == [t |-> "float", n |-> 0, d |-> 0]

IsNumber(v) == v.t \in {"bool", "int", "float"}

\* A bool or an int as a float: Python's bool is a subclass of int.
AsFloat(v) ==
    CASE v.t = "bool" -> FloatV(IF v.b THEN 1 ELSE 0, 1)
      [] v.t = "int" -> FloatV(v.i, 1)
      [] v.t = "float" -> v

\* a == b on floats (IEEE: nan equals nothing, itself included).
FloatEq(a, b) == a # NaN /\ b # NaN /\ a = b

\* a <= b on floats.
FloatLe(a, b) ==
    IF a = NaN \/ b = NaN THEN FALSE
    ELSE IF a.d = 0 /\ b.d = 0 THEN a.n <= b.n
    ELSE IF a.d = 0 THEN a.n < 0
    ELSE IF b.d = 0 THEN b.n > 0
    ELSE a.n * b.d <= b.n * a.d

\* Python's a == b over None, bool, int, float, str and list.
RECURSIVE PyEq(_, _)
PyEq(a, b) ==
    IF IsNumber(a) /\ IsNumber(b) THEN FloatEq(AsFloat(a), AsFloat(b))
    ELSE IF a.t = "str" /\ b.t = "str" THEN a.s = b.s
    ELSE IF a.t = "none" /\ b.t = "none" THEN TRUE
    ELSE IF a.t = "list" /\ b.t = "list" THEN
        /\ Len(a.l) = Len(b.l)
        /\ \A k \in 1..Len(a.l) : PyEq(a.l[k], b.l[k])
    ELSE FALSE

\* Python's x in seq over a list of values.
PyIn(x, seq) == \E k \in 1..Len(seq) : PyEq(seq[k], x)

-----------------------------------------------------------------------------
(* Text *)

Whitespace == {" ", "\t", "\n", "\r"}
Digits == <<"0", "1", "2", "3", "4", "5", "6", "7", "8", "9">>
Upper == <<"A", "B", "C", "D", "E", "F", "G", "H", "I", "J", "K", "L", "M",
           "N", "O", "P", "Q", "R", "S", "T", "U", "V", "W", "X", "Y", "Z">>
Lower == <<"a", "b", "c", "d", "e", "f", "g", "h", "i", "j", "k", "l", "m",
           "n", "o", "p", "q", "r", "s", "t", "u", "v", "w", "x", "y", "z">>

IsDigit(c) == \E k \in 1..10 : Digits[k] = c
DigitVal(c) == (CHOOSE k \in 1..10 : Digits[k] = c) - 1

LowerChar(c) ==
    IF \E k \in 1..26 : Upper[k] = c
    THEN Lower[CHOOSE k \in 1..26 : Upper[k] = c]
    ELSE c

\* str.lower()
lower(s) == [k \in 1..Len(s) |-> LowerChar(s[k])]

RECURSIVE lstrip(_)
lstrip(s) ==
    IF s # <<>> /\ Head(s) \in Whitespace THEN lstrip(Tail(s)) ELSE s

RECURSIVE rstrip(_)
rstrip(s) ==
    IF s # <<>> /\ s[Len(s)] \in Whitespace
    THEN rstrip(SubSeq(s, 1, Len(s) - 1))
    ELSE s

\* str.strip()
strip(s) == rstrip(lstrip(s))

startswith(s, c) == s # <<>> /\ s[1] = c
endswith(s, c) == s # <<>> /\ s[Len(s)] = c

\* The position of the first (find) and of the last (rfind) c in s, 1-based;
\* 0 when there is none (Python's -1).
find(s, c) ==
    IF \E k \in 1..Len(s) : s[k] = c
    THEN CHOOSE k \in 1..Len(s) : s[k] = c /\ \A j \in 1..(k - 1) : s[j] # c
    ELSE 0

rfind(s, c) ==
    IF \E k \in 1..Len(s) : s[k] = c
    THEN CHOOSE k \in 1..Len(s) : s[k] = c /\ \A j \in (k + 1)..Len(s) : s[j] # c
    ELSE 0

\* str.split(): the maximal runs of non-whitespace characters.
RECURSIVE SplitFrom(_, _, _)
SplitFrom(s, cur, acc) ==
    IF s = <<>> THEN (IF cur = <<>> THEN acc ELSE Append(acc, cur))
    ELSE IF Head(s) \in Whitespace
    THEN SplitFrom(Tail(s), <<>>, IF cur = <<>> THEN acc ELSE Append(acc, cur))
    ELSE SplitFrom(Tail(s), Append(cur, Head(s)), acc)

split(s) == SplitFrom(s, <<>>, <<>>)

\* str.split(","): every piece between separators, empty ones included.
RECURSIVE SplitOnFrom(_, _, _, _)
SplitOnFrom(s, sep, cur, acc) ==
    IF s = <<>> THEN Append(acc, cur)
    ELSE IF Head(s) = sep THEN SplitOnFrom(Tail(s), sep, <<>>, Append(acc, cur))
    ELSE SplitOnFrom(Tail(s), sep, Append(cur, Head(s)), acc)

SplitOn(s, sep) == SplitOnFrom(s, sep, <<>>, <<>>)

\* " ".join(parts)
RECURSIVE JoinWith(_, _)
JoinWith(parts, sep) ==
    IF parts = <<>> THEN <<>>
    ELSE IF Len(parts) = 1 THEN parts[1]
    ELSE parts[1] \o <<sep>> \o JoinWith(Tail(parts), sep)

\* str.strip("[]"): leading and trailing brackets removed.
RECURSIVE StripChars(_, _)
StripChars(s, cs) ==
    IF s # <<>> /\ Head(s) \in cs THEN StripChars(Tail(s), cs)
    ELSE IF s # <<>> /\ s[Len(s)] \in cs
    THEN StripChars(SubSeq(s, 1, Len(s) - 1), cs)
    ELSE s

-----------------------------------------------------------------------------
(* int(str) and float(str) *)

Failed == [ok |-> FALSE]
Ok(v) == [ok |-> TRUE, val |-> v]

\* Python's digitpart: digits, single underscores allowed between two digits.
IsDigitGroup(s) ==
    /\ s # <<>>
    /\ IsDigit(s[1])
    /\ IsDigit(s[Len(s)])
    /\ \A k \in 1..Len(s) :
          \/ IsDigit(s[k])
          \/ s[k] = "_" /\ k < Len(s) /\ s[k + 1] # "_"

RECURSIVE DigitsOf(_)
DigitsOf(s) ==
    IF s = <<>> THEN <<>>
    ELSE IF IsDigit(Head(s)) THEN <<Head(s)>> \o DigitsOf(Tail(s))
    ELSE DigitsOf(Tail(s))

RECURSIVE NatOf(_)
NatOf(ds) ==
    IF ds = <<>> THEN 0
    ELSE 10 * NatOf(SubSeq(ds, 1, Len(ds) - 1)) + DigitVal(ds[Len(ds)])

RECURSIVE Pow10(_)
Pow10(k) == IF k = 0 THEN 1 ELSE 10 * Pow10(k - 1)

HasSign(s) == s # <<>> /\ s[1] \in {"+", "-"}
Unsigned(s) == IF HasSign(s) THEN Tail(s) ELSE s
SignOf(s) == IF startswith(s, "-") THEN -1 ELSE 1

\* A signed decimal integer literal: Ok(its value) or Failed.
SignedInt(s) ==
    IF IsDigitGroup(Unsigned(s))
    THEN Ok(SignOf(s) * NatOf(DigitsOf(Unsigned(s))))
    ELSE Failed

\* int(t) for a str t: Ok(value), or Failed for ValueError.
PyInt(t) == SignedInt(strip(t))

\* The mantissa [intpart][.[fracpart]] of a float literal, at least one digit.
MantissaOk(m) ==
    LET dot == find(m, ".")
        ip == SubSeq(m, 1, dot - 1)
        fp == SubSeq(m, dot + 1, Len(m))
    IN  IF dot = 0 THEN IsDigitGroup(m)
        ELSE /\ ip = <<>> \/ IsDigitGroup(ip)
             /\ fp = <<>> \/ IsDigitGroup(fp)
             /\ ~(ip = <<>> /\ fp = <<>>)

\* float(t) for a str t: Ok(float), or Failed for ValueError. Finite values
\* are kept as exact decimals (no binary rounding, no overflow to inf).
PyFloatStr(t) ==
    LET s == strip(t)
        body == Unsigned(s)
        low == lower(body)
        epos == find(low, "e")
        mant == IF epos = 0 THEN body ELSE SubSeq(body, 1, epos - 1)
        ex == IF epos = 0 THEN Ok(0)
              ELSE SignedInt(SubSeq(body, epos + 1, Len(body)))
        dot == find(mant, ".")
        fp == IF dot = 0 THEN <<>> ELSE DigitsOf(SubSeq(mant, dot + 1, Len(mant)))
        shift == ex.val - Len(fp)
        mag == NatOf(DigitsOf(mant))
    IN  IF low \in {<<"i", "n", "f">>, <<"i", "n", "f", "i", "n", "i", "t", "y">>}
        THEN Ok(IF SignOf(s) < 0 THEN NegInf ELSE PosInf)
        ELSE IF low = <<"n", "a", "n">> THEN Ok(NaN)
        ELSE IF ~MantissaOk(mant) \/ ~ex.ok THEN Failed
        ELSE IF shift >= 0 THEN Ok(FloatV(SignOf(s) * mag * Pow10(shift), 1))
        ELSE Ok(FloatV(SignOf(s) * mag, Pow10(-shift)))

\* float(v) for any value: Failed for TypeError (None, list) and ValueError.
PyFloat(v) ==
    CASE IsNumber(v) -> Ok(AsFloat(v))
      [] v.t = "str" -> PyFloatStr(v.s)
      [] OTHER -> Failed

-----------------------------------------------------------------------------
(* auto_cast *)

BoolWords == {<<"t", "r", "u", "e">>, <<"f", "a", "l", "s", "e">>}

auto_cast(x) ==
    LET t == strip(x)
    IN  IF lower(t) \in BoolWords THEN BoolV(lower(t) = <<"t", "r", "u", "e">>)
        ELSE IF PyInt(t).ok THEN IntV(PyInt(t).val)
        ELSE IF PyFloatStr(t).ok THEN PyFloatStr(t).val
        ELSE IF \/ startswith(t, "'") /\ endswith(t, "'")
                \/ startswith(t, "\"") /\ endswith(t, "\"")
        THEN StrV(SubSeq(t, 2, Len(t) - 1))
        ELSE StrV(t)


-----------------------------------------------------------------------------
(* parse_rule_line and dcl_parse *)

\* f"{idx}": the decimal digits of a natural number.
RECURSIVE DecStr(_)
DecStr(n) ==
    IF n < 10 THEN <<Digits[n + 1]>>
    ELSE DecStr(n \div 10) \o <<Digits[(n % 10) + 1]>>

\* f"r{idx}"
RuleId(idx) == <<"r">> \o DecStr(idx)

DCLRule(id, type, field, value) ==
    [id |-> id, type |-> type, field |-> field, value |-> value]

NoRule == [type |-> "None"]

\* The items of an "in" line that has both brackets: the text from the first
\* "[" to the last "]", brackets stripped, split on commas, each piece
\* stripped, the empty ones dropped, the others cast.
RECURSIVE CastItems(_)
CastItems(pieces) ==
    IF pieces = <<>> THEN <<>>
    ELSE IF strip(Head(pieces)) = <<>> THEN CastItems(Tail(pieces))
    ELSE <<auto_cast(strip(Head(pieces)))>> \o CastItems(Tail(pieces))

BracketItems(raw) ==
    LET bracket == SubSeq(raw, find(raw, "["), rfind(raw, "]"))
    IN  CastItems(SplitOn(StripChars(bracket, {"[", "]"}), ","))

\* A broken Keyword: the first token compared as written.
KeywordAsWritten(parts) == parts[1]

\* keyword = parts[0].lower()
Keyword(parts) == lower(parts[1])

parse_rule_line(line, idx) ==
    LET raw == strip(line)
        parts == split(raw)
        keyword == Keyword(parts)
        field == parts[2]
        rest == SubSeq(parts, 3, Len(parts))
    IN  IF raw = <<>> \/ startswith(raw, "#") THEN NoRule
        ELSE IF Len(parts) < 2 THEN NoRule
        ELSE IF keyword = <<"r", "e", "q", "u", "i", "r", "e">> /\ Len(parts) >= 2
        THEN DCLRule(RuleId(idx), "required", field, NoneV)
        ELSE IF keyword = <<"e", "q", "u", "a", "l", "s">> /\ Len(parts) >= 3
        THEN DCLRule(RuleId(idx), "equals", field, auto_cast(JoinWith(rest, " ")))
        ELSE IF keyword = <<"m", "a", "x">> /\ Len(parts) >= 3
        THEN DCLRule(RuleId(idx), "max", field, auto_cast(parts[3]))
        ELSE IF keyword = <<"m", "i", "n">> /\ Len(parts) >= 3
        THEN DCLRule(RuleId(idx), "min", field, auto_cast(parts[3]))
        ELSE IF keyword = <<"i", "n">> /\ Len(parts) >= 3
        THEN DCLRule(RuleId(idx), "in", field,
                     ListV(IF find(raw, "[") > 0 /\ find(raw, "]") > 0
                           THEN BracketItems(raw)
                           ELSE [k \in 1..Len(rest) |-> StrV(rest[k])]))
        ELSE NoRule

\* str.splitlines() over the line boundaries \n, \r and \r\n.
RECURSIVE SplitLinesFrom(_, _, _)
SplitLinesFrom(s, cur, acc) ==
    IF s = <<>> THEN (IF cur = <<>> THEN acc ELSE Append(acc, cur))
    ELSE IF Len(s) >= 2 /\ s[1] = "\r" /\ s[2] = "\n"
    THEN SplitLinesFrom(Tail(Tail(s)), <<>>, Append(acc, cur))
    ELSE IF Head(s) \in {"\n", "\r"}
    THEN SplitLinesFrom(Tail(s), <<>>, Append(acc, cur))
    ELSE SplitLinesFrom(Tail(s), Append(cur, Head(s)), acc)

splitlines(s) == SplitLinesFrom(s, <<>>, <<>>)

\* A broken ParseLines: a rule numbered by its place among the rules kept.
RECURSIVE ParseLinesRenumbered(_, _, _)
ParseLinesRenumbered(lines, i, rules) ==
    IF i > Len(lines) THEN rules
    ELSE LET r == parse_rule_line(lines[i], Len(rules) + 1)
         IN  ParseLinesRenumbered(lines, i + 1,
                                  IF r # NoRule THEN Append(rules, r) ELSE rules)

\* The loop of dcl_parse: enumerate(lines, start=1), a rule appended when
\* parse_rule_line returns one.
RECURSIVE ParseLines(_, _, _)
ParseLines(lines, i, rules) ==
    IF i > Len(lines) THEN rules
    ELSE LET r == parse_rule_line(lines[i], i)
         IN  ParseLines(lines, i + 1, IF r # NoRule THEN Append(rules, r) ELSE rules)

DefaultTitle == <<"L", "a", "w", " ", "S", "n", "i", "p", "p", "e", "t">>

\* req.law_title or "Law Snippet": None and "" are falsy.
TitleOr(title, default) ==
    IF title = NoneV \/ title = StrV(<<>>) THEN default ELSE title.s

DCLSchema(law_title, rules, source_text, generated_at) ==
    [law_title |-> law_title, rules |-> rules, source_text |-> source_text,
     generated_at |-> generated_at]

dcl_parse(request, clock) ==
    DCLSchema(TitleOr(request.law_title, DefaultTitle),
              ParseLines(splitlines(request.law_text), 1, <<>>),
              request.law_text,
              clock)


-----------------------------------------------------------------------------
(* evaluate *)

\* data.get(rule.field, None)
Get(d, field) == IF field \in DOMAIN d THEN d[field] ELSE NoneV

\* rule.field in data and data[rule.field] not in (None, "")
RequiredPassed(rule, d) ==
    /\ rule.field \in DOMAIN d
    /\ ~PyIn(d[rule.field], <<NoneV, StrV(<<>>)>>)

\* field_value == rule.value
EqualsPassed(rule, d) == PyEq(Get(d, rule.field), rule.value)

\* A broken MaxPassed: the bound itself is refused.
MaxPassedStrict(rule, d) ==
    LET actual == PyFloat(Get(d, rule.field))
        limit == PyFloat(rule.value)
    IN  IF actual.ok /\ limit.ok
        THEN FloatLe(actual.val, limit.val) /\ ~FloatEq(actual.val, limit.val)
        ELSE FALSE

\* float(field_value) <= float(rule.value), False on any exception
MaxPassed(rule, d) ==
    LET actual == PyFloat(Get(d, rule.field))
        limit == PyFloat(rule.value)
    IN  IF actual.ok /\ limit.ok THEN FloatLe(actual.val, limit.val) ELSE FALSE

\* float(field_value) >= float(rule.value), False on any exception
MinPassed(rule, d) ==
    LET actual == PyFloat(Get(d, rule.field))
        limit == PyFloat(rule.value)
    IN  IF actual.ok /\ limit.ok THEN FloatLe(limit.val, actual.val) ELSE FALSE

\* options = rule.value if isinstance(rule.value, list) else []
Options(rule) == IF rule.value.t = "list" THEN rule.value.l ELSE <<>>

InPassed(rule, d) == PyIn(Get(d, rule.field), Options(rule))

Passed(rule, d) ==
    CASE rule.type = "required" -> RequiredPassed(rule, d)
      [] rule.type = "equals" -> EqualsPassed(rule, d)
      [] rule.type = "max" -> MaxPassed(rule, d)
      [] rule.type = "min" -> MinPassed(rule, d)
      [] rule.type = "in" -> InPassed(rule, d)
      [] OTHER -> FALSE

\* The parts each details f-string is rendered from.
Details(rule, d, passed) ==
    CASE rule.type = "required" -> <<"is required; present=", BoolV(passed)>>
      [] rule.type = "equals" -> <<"must equal", rule.value, Get(d, rule.field)>>
      [] rule.type = "max" -> <<"must be <=", rule.value, Get(d, rule.field)>>
      [] rule.type = "min" -> <<"must be >=", rule.value, Get(d, rule.field)>>
      [] rule.type = "in" -> <<"must be in", ListV(Options(rule)), Get(d, rule.field)>>
      [] OTHER -> <<"Unknown rule type", rule.type>>

ClearanceResult(rule, d) ==
    [rule_id |-> rule.id, field |-> rule.field, passed |-> Passed(rule, d),
     details |-> Details(rule, d, Passed(rule, d))]

\* A broken EvalLoop: overall follows the last rule alone.
RECURSIVE EvalLoopLast(_, _, _, _, _)
EvalLoopLast(rules, d, i, results, overall) ==
    IF i > Len(rules) THEN [results |-> results, overall |-> overall]
    ELSE LET r == ClearanceResult(rules[i], d)
         IN  EvalLoopLast(rules, d, i + 1, Append(results, r), r.passed)

\* The loop of evaluate over schema.rules, from rule i on.
RECURSIVE EvalLoop(_, _, _, _, _)
EvalLoop(rules, d, i, results, overall) ==
    IF i > Len(rules) THEN [results |-> results, overall |-> overall]
    ELSE LET r == ClearanceResult(rules[i], d)
         IN  EvalLoop(rules, d, i + 1, Append(results, r),
                      IF ~r.passed THEN FALSE ELSE overall)

evaluate(sch, d) == EvalLoop(sch.rules, d, 1, <<>>, TRUE)

-----------------------------------------------------------------------------
(* proof_hash and clearance_check *)

\* json.dumps(payload, sort_keys=True, separators=(",", ":")): the payload's
\* members in the sorted order of its keys.
SortedKeys ==
    <<"data_checked", "generated_at", "law_title", "overall_passed", "results",
      "schema">>

Canonical(payload) ==
    [k \in 1..Len(SortedKeys) |-> <<SortedKeys[k], payload[SortedKeys[k]]>>]

\* SHA-256 as a collision-free function of the bytes it is given.
proof_hash(payload) == [sha256 |-> Canonical(payload)]

ProofLog(sch, d, ev, generated_at, h) ==
    [law_title |-> sch.law_title, schema |-> sch, data_checked |-> d,
     results |-> ev.results, overall_passed |-> ev.overall,
     generated_at |-> generated_at, proof_hash |-> h]

\* The payload clearance_check hashes; clock is datetime.now(timezone.utc).
Payload(request, ev, clock) ==
    [law_title |-> request.schema.law_title,
     schema |-> request.schema,
     data_checked |-> request.data,
     results |-> ev.results,
     overall_passed |-> ev.overall,
     generated_at |-> clock]

clearance_check(request, clock) ==
    LET ev == evaluate(request.schema, request.data)
    IN  ProofLog(request.schema, request.data, ev, clock,
                 proof_hash(Payload(request, ev, clock)))


-----------------------------------------------------------------------------
(* The use-case store: get_db, submit_usecase, admin_usecases *)

Idle == [pc |-> "idle"]

\* The six form fields of a submission.
Forms ==
    {[system_name |-> "scoring", purpose |-> "credit", context |-> "bank",
      data_used |-> "income", safeguards |-> "review", extra_details |-> ""],
     [system_name |-> "chatbot", purpose |-> "support", context |-> "shop",
      data_used |-> "messages", safeguards |-> "none", extra_details |-> "beta"]}

\* json.dumps(payload, sort_keys=True) of the submission payload, hashed.
RecordHash(form, clock) ==
    [sha256 |-> <<form.context, form.data_used, form.extra_details, form.purpose,
                  form.safeguards, form.system_name, clock>>]

\* get_db up to its yield: db = SessionLocal(), a fresh Session, the generator
\* suspended inside the try.
Yielded == [state |-> "new", gen |-> "suspended", log |-> <<"acquire">>]

\* A statement run on a Session begins a transaction on it, also after close().
Used(sess, op) == [sess EXCEPT !.state = "active", !.log = Append(@, op)]

\* db.close() in the finally of get_db, run when the generator is finalized.
Closed(sess) ==
    [sess EXCEPT !.state = "closed", !.gen = "finalized", !.log = Append(@, "release")]

\* next(get_db()): the generator object is a temporary that nothing holds once
\* next() has returned, so reference counting finalizes it on the spot, which
\* raises GeneratorExit at the yield and runs the finally. The handler gets a
\* Session that has been closed already.
NextGetDb == Closed(Yielded)

UseCase(id, form, hash, clock) ==
    [id |-> id, created_at |-> clock, system_name |-> form.system_name,
     purpose |-> form.purpose, context |-> form.context,
     data_used |-> form.data_used, safeguards |-> form.safeguards,
     extra_details |-> form.extra_details, record_hash |-> hash]

\* A broken OrderByIdDesc: order_by(UseCase.id), oldest first.
RECURSIVE OrderByIdAsc(_)
OrderByIdAsc(rows) ==
    IF rows = {} THEN <<>>
    ELSE LET low == CHOOSE r \in rows : \A q \in rows : r.id <= q.id
         IN  <<low>> \o OrderByIdAsc(rows \ {low})

\* db.query(UseCase).order_by(UseCase.id.desc()).all()
RECURSIVE OrderByIdDesc(_)
OrderByIdDesc(rows) ==
    IF rows = {} THEN <<>>
    ELSE LET top == CHOOSE r \in rows : \A q \in rows : q.id <= r.id
         IN  <<top>> \o OrderByIdDesc(rows \ {top})

StoreVars == <<table, nextId, req, sessions, saved, listing>>
PureVars == <<txt, cast_out, parse_req, parsed, schema, data, evaluated, proofs>>

\* submit_usecase up to db: Session = next(get_db()).
SubmitBegin(form) ==
    /\ req = Idle
    /\ Len(sessions) < MaxRequests
    /\ sessions' = Append(sessions, NextGetDb)
    /\ req' = [pc |-> "acquired", kind |-> "submit", sid |-> Len(sessions) + 1,
               form |-> form, hash |-> RecordHash(form, now)]
    /\ UNCHANGED <<table, nextId, saved, listing, now, PureVars>>

\* db.add(entry); db.commit(); db.refresh(entry): the row is stored under the
\* next id of the sequence.
SubmitInsert ==
    /\ req.pc = "acquired" /\ req.kind = "submit"
    /\ sessions' = [sessions EXCEPT ![req.sid] = Used(@, "insert")]
    /\ table' = table \cup {UseCase(nextId, req.form, req.hash, now)}
    /\ saved' = Append(saved, nextId)
    /\ nextId' = nextId + 1
    /\ req' = [req EXCEPT !.pc = "stored"]
    /\ UNCHANGED <<listing, now, PureVars>>

\* db.commit() raises (storage unavailable): the exception leaves the handler,
\* nothing is stored; the sequence may have handed out the id all the same.
SubmitFails ==
    /\ req.pc = "acquired" /\ req.kind = "submit"
    /\ sessions' = [sessions EXCEPT ![req.sid] = Used(@, "insert")]
    /\ nextId' \in {nextId, nextId + 1}
    /\ req' = Idle
    /\ UNCHANGED <<table, saved, listing, now, PureVars>>

\* return {"status": "ok", ...}
SubmitReturn ==
    /\ req.pc = "stored"
    /\ req' = Idle
    /\ UNCHANGED <<table, nextId, sessions, saved, listing, now, PureVars>>

\* admin_usecases up to db: Session = next(get_db()).
AdminBegin ==
    /\ req = Idle
    /\ Len(sessions) < MaxRequests
    /\ sessions' = Append(sessions, NextGetDb)
    /\ req' = [pc |-> "acquired", kind |-> "admin", sid |-> Len(sessions) + 1]
    /\ UNCHANGED <<table, nextId, saved, listing, now, PureVars>>

\* records = db.query(...).all() and the loop building out.
AdminQuery ==
    /\ req.pc = "acquired" /\ req.kind = "admin"
    /\ sessions' = [sessions EXCEPT ![req.sid] = Used(@, "read")]
    /\ listing' = OrderByIdDesc(table)
    /\ req' = [req EXCEPT !.pc = "listed"]
    /\ UNCHANGED <<table, nextId, saved, now, PureVars>>

\* The query raises (storage unavailable).
AdminFails ==
    /\ req.pc = "acquired" /\ req.kind = "admin"
    /\ sessions' = [sessions EXCEPT ![req.sid] = Used(@, "read")]
    /\ req' = Idle
    /\ UNCHANGED <<table, nextId, saved, listing, now, PureVars>>

\* return out
AdminReturn ==
    /\ req.pc = "listed"
    /\ req' = Idle
    /\ UNCHANGED <<table, nextId, sessions, saved, listing, now, PureVars>>

\* Time passes between two readings of the clock (datetime.now, utcnow).
Tick ==
    /\ now < MaxTime
    /\ now' = now + 1
    /\ UNCHANGED <<PureVars, StoreVars>>

-----------------------------------------------------------------------------
(* Specifications *)

CastIdle == txt = <<>> /\ cast_out = NotCalled
ParseIdle == parse_req = NotCalled /\ parsed = NotCalled
EvalIdle == schema = NotCalled /\ data = NotCalled /\ evaluated = NotCalled
ClearanceIdle == proofs = <<>>
StoreIdle ==
    /\ table = {} /\ nextId = 1 /\ req = Idle /\ sessions = <<>>
    /\ saved = <<>> /\ listing = NotCalled

CastVars == <<txt, cast_out>>
ParseVars == <<parse_req, parsed>>
EvalVars == <<schema, data, evaluated>>

\* Every text of at most MaxLen characters over CastAlphabet.
CastAlphabet == {"'", "\"", "1", "0", "-", ".", " ", "a"}
ShortTexts == UNION {[1..k -> CastAlphabet] : k \in 0..MaxLen}

\* Longer literals: the booleans, exponents, inf and nan, quoted words.
LongTexts ==
    {<<"t", "r", "u", "e">>, <<"T", "r", "u", "e">>, <<"F", "A", "L", "S", "E">>,
     <<" ", "f", "a", "l", "s", "e", " ">>, <<"4", "2">>, <<"+", "7">>,
     <<"1", "_", "0">>, <<"3", ".", "5">>, <<"1", "e", "2">>, <<"5", "E", "-", "1">>,
     <<"i", "n", "f">>, <<"-", "I", "n", "f", "i", "n", "i", "t", "y">>,
     <<"n", "a", "n">>, <<"'", "h", "i", "'">>, <<"\"", "h", " ", "i", "\"">>,
     <<"'", "h", "i", "\"">>, <<"h", "i">>, <<"t", "r", "u", "e", "1">>,
     <<"1", ".", "2", ".", "3">>, <<"1", "_", "_", "0">>, <<"e", "5">>}

CastInputs == ShortTexts \cup LongTexts

AutoCast ==
    /\ cast_out = NotCalled
    /\ cast_out' = auto_cast(txt)
    /\ UNCHANGED <<txt, ParseVars, EvalVars, now, proofs, StoreVars>>

InitCast ==
    /\ txt \in CastInputs /\ cast_out = NotCalled
    /\ ParseIdle /\ EvalIdle /\ now = 0 /\ ClearanceIdle /\ StoreIdle

NextCast == AutoCast

SpecCast == InitCast /\ [][NextCast]_vars


\* Source lines: blank, whitespace only, a comment, every keyword with enough
\* and with too few tokens, mixed case, leading space, an unknown keyword.
SourceLines ==
    {<<>>,
     <<" ", "\t">>,
     <<"#", " ", "m", "a", "x", " ", "a", " ", "1">>,
     <<"r", "e", "q", "u", "i", "r", "e">>,
     <<" ", "R", "e", "q", "u", "i", "r", "e", " ", "a">>,
     <<"e", "q", "u", "a", "l", "s", " ", "a", " ", "5">>,
     <<"e", "q", "u", "a", "l", "s", " ", "a">>,
     <<"m", "a", "x", " ", "b", " ", "1", ".", "5", " ", "x">>,
     <<"M", "I", "N", " ", "b", " ", "x">>,
     <<"i", "n", " ", "a", " ", "[", "x", ",", " ", "5", "]">>,
     <<"i", "n", " ", "a", " ", "x">>,
     <<"f", "o", "o", " ", "a", " ", "b">>}

Documents == UNION {[1..k -> SourceLines] : k \in 0..MaxLines}
LineBreaks == {<<"\n">>, <<"\r", "\n">>}
Titles == {NoneV, StrV(<<>>), StrV(<<"T">>)}

\* The lines of a document joined by a line break.
RECURSIVE JoinLines(_, _)
JoinLines(lines, br) ==
    IF lines = <<>> THEN <<>>
    ELSE IF Len(lines) = 1 THEN lines[1]
    ELSE lines[1] \o br \o JoinLines(Tail(lines), br)

ParseRequest(law_text, law_title) == [law_text |-> law_text, law_title |-> law_title]

DclParse ==
    /\ parsed = NotCalled
    /\ parsed' = dcl_parse(parse_req, now)
    /\ UNCHANGED <<parse_req, CastVars, EvalVars, now, proofs, StoreVars>>

InitParse ==
    /\ parse_req \in {ParseRequest(JoinLines(ls, br), title) :
                         ls \in Documents, br \in LineBreaks, title \in Titles}
    /\ parsed = NotCalled
    /\ CastIdle /\ EvalIdle /\ now = 0 /\ ClearanceIdle /\ StoreIdle

NextParse == DclParse

SpecParse == InitParse /\ [][NextParse]_vars

\* Schemas a caller posts to /clearance/check: any type string, any JSON value.
FieldA == <<"a">>
FieldB == <<"b">>
Abc == StrV(<<"a", "b", "c">>)
Five == StrV(<<"5">>)

ValuesOf(type) ==
    CASE type = "equals" ->
             {NoneV, BoolV(TRUE), IntV(1), IntV(5), FloatV(5, 1), Five, Abc}
      [] type \in {"max", "min"} -> {NoneV, IntV(5), Five, Abc}
      [] type = "in" -> {ListV(<<IntV(5), Abc>>), ListV(<<NoneV>>), IntV(5)}
      [] OTHER -> {NoneV}

RuleTypes == {"required", "equals", "max", "min", "in", "regex"}

RuleOptions ==
    UNION {{DCLRule(<<>>, type, FieldA, v) : v \in ValuesOf(type)} : type \in RuleTypes}
    \cup {DCLRule(<<>>, "required", FieldB, NoneV),
          DCLRule(<<>>, "equals", FieldB, IntV(5)),
          DCLRule(<<>>, "max", FieldB, IntV(5))}

\* The rules of a posted schema, numbered r1, r2, ... by the caller.
WithIds(rules) == [k \in 1..Len(rules) |-> [rules[k] EXCEPT !.id = RuleId(k)]]

PostedSchemas ==
    {DCLSchema(<<"T">>, WithIds(rules), <<>>, 0) :
        rules \in UNION {[1..k -> RuleOptions] : k \in 0..MaxRules}}

\* Data records: field a absent or any JSON scalar, field b absent or 5.
Absent == [t |-> "absent"]
DataValues ==
    {NoneV, BoolV(TRUE), IntV(1), IntV(5), IntV(6), FloatV(5, 1), FloatV(11, 2),
     Five, Abc, StrV(<<>>)}

DataOf(a, b) ==
    [f \in (IF a = Absent THEN {} ELSE {FieldA}) \cup
           (IF b = Absent THEN {} ELSE {FieldB}) |-> IF f = FieldA THEN a ELSE b]

DataRecords ==
    {DataOf(a, b) : a \in DataValues \cup {Absent}, b \in {Absent, IntV(5)}}

Evaluate ==
    /\ evaluated = NotCalled
    /\ evaluated' = evaluate(schema, data)
    /\ UNCHANGED <<schema, data, CastVars, ParseVars, now, proofs, StoreVars>>

InitEval ==
    /\ schema \in PostedSchemas
    /\ data \in DataRecords
    /\ evaluated = NotCalled
    /\ CastIdle /\ ParseIdle /\ now = 0 /\ ClearanceIdle /\ StoreIdle

NextEval == Evaluate

SpecEval == InitEval /\ [][NextEval]_vars

\* /clearance/check on a parsed schema: the demo's rules and data records.
DemoText ==
    <<"r", "e", "q", "u", "i", "r", "e", " ", "m", "\n",
      "m", "a", "x", " ", "w", " ", "5", "0", "\n",
      "i", "n", " ", "c", " ", "[", "e", ",", " ", "f", "]">>

DemoSchemas ==
    {dcl_parse(ParseRequest(DemoText, StrV(<<"E", "S", "P", "R">>)), 0),
     dcl_parse(ParseRequest(<<"m", "i", "n", " ", "w", " ", "1">>, NoneV), 0)}

FieldM == <<"m">>
FieldW == <<"w">>
FieldC == <<"c">>

DemoData ==
    {[f \in {FieldM, FieldW, FieldC} |->
         IF f = FieldM THEN StrV(<<"A", "C", "M", "E">>)
         ELSE IF f = FieldW THEN IntV(42) ELSE StrV(<<"e">>)],
     [f \in {FieldW, FieldC} |-> IF f = FieldW THEN IntV(80) ELSE StrV(<<"t">>)],
     [f \in {FieldW} |-> FloatV(1, 2)]}

ClearanceRequest(sch, d) == [schema |-> sch, data |-> d]

ClearanceCheck(d) ==
    /\ Len(proofs) < MaxChecks
    /\ proofs' = Append(proofs, clearance_check(ClearanceRequest(schema, d), now))
    /\ UNCHANGED <<schema, data, evaluated, CastVars, ParseVars, now, StoreVars>>

InitClearance ==
    /\ schema \in DemoSchemas
    /\ data = NotCalled /\ evaluated = NotCalled
    /\ proofs = <<>>
    /\ now = 0
    /\ CastIdle /\ ParseIdle /\ StoreIdle

NextClearance ==
    \/ \E d \in DemoData : ClearanceCheck(d)
    \/ Tick

SpecClearance == InitClearance /\ [][NextClearance]_vars

InitStore ==
    /\ StoreIdle
    /\ now = 0
    /\ CastIdle /\ ParseIdle /\ EvalIdle /\ ClearanceIdle

NextStore ==
    \/ \E form \in Forms : SubmitBegin(form)
    \/ SubmitInsert
    \/ SubmitFails
    \/ SubmitReturn
    \/ AdminBegin
    \/ AdminQuery
    \/ AdminFails
    \/ AdminReturn
    \/ Tick

SpecStore == InitStore /\ [][NextStore]_vars

-----------------------------------------------------------------------------
(* Claims *)

\* C1. Two clearance_check calls on the same schema and the same data record
\* return the same proof_hash, whatever the time of each call.
C1_HashDeterminism ==
    \A i, j \in 1..Len(proofs) :
        proofs[i].schema = proofs[j].schema /\ proofs[i].data_checked = proofs[j].data_checked
            => proofs[i].proof_hash = proofs[j].proof_hash

\* The request that made session i is over.
Ended(i) == req = Idle \/ req.sid # i

IsOp(e) == e \in {"insert", "read"}

\* C2. On every handle the steps are acquire, one insert or one read, release:
\* the operation runs on a handle that is acquired and not yet released, at
\* most once, and the handle is released when its request has ended.
C2_HandleDiscipline ==
    \A i \in 1..Len(sessions) :
        LET log == sessions[i].log
        IN  /\ \A k \in 1..Len(log) :
                  IsOp(log[k]) =>
                      /\ \E j \in 1..(k - 1) : log[j] = "acquire"
                      /\ \A j \in 1..(k - 1) : log[j] # "release"
            /\ Cardinality({k \in 1..Len(log) : IsOp(log[k])}) <= 1
            /\ Ended(i) => log[Len(log)] = "release"

\* C3. evaluate returns one Result per rule, in schema order, with the rule's
\* id and field, and overall is the conjunction of the passed flags.
C3_ResultsAndOverall ==
    evaluated # NotCalled =>
        LET rules == schema.rules
            results == evaluated.results
        IN  /\ Len(results) = Len(rules)
            /\ \A k \in 1..Len(rules) :
                  /\ results[k].rule_id = rules[k].id
                  /\ results[k].field = rules[k].field
            /\ evaluated.overall = (\A k \in 1..Len(results) : results[k].passed)

C3_Witness ==
    /\ evaluated # NotCalled
    /\ Len(evaluated.results) = 2
    /\ ~evaluated.results[1].passed
    /\ evaluated.results[2].passed
    /\ schema.rules[1].field # schema.rules[2].field

\* What a source line yields: no rule for a blank line, a comment, a line of
\* fewer than 2 tokens, an unrecognised keyword or a keyword short of tokens;
\* else the kind its first token selects, whatever its case.
LineKind(line) ==
    LET tokens == split(line)
        kw == lower(tokens[1])
    IN  IF tokens = <<>> THEN "none"
        ELSE IF tokens[1][1] = "#" THEN "none"
        ELSE IF Len(tokens) < 2 THEN "none"
        ELSE IF kw = <<"r", "e", "q", "u", "i", "r", "e">> THEN "required"
        ELSE IF Len(tokens) < 3 THEN "none"
        ELSE IF kw = <<"e", "q", "u", "a", "l", "s">> THEN "equals"
        ELSE IF kw = <<"m", "a", "x">> THEN "max"
        ELSE IF kw = <<"m", "i", "n">> THEN "min"
        ELSE IF kw = <<"i", "n">> THEN "in"
        ELSE "none"

\* Every rule's id is prefix followed by the decimal 1-based number of the
\* source line that produced it (the line of that kind naming that field);
\* ids are unique and the rules are in increasing line order.
IdsFollowLines(prefix) ==
    LET lines == splitlines(parse_req.law_text)
        rules == parsed.rules
        LineOf(k) == CHOOSE n \in 1..Len(lines) : rules[k].id = prefix \o DecStr(n)
    IN  /\ \A k \in 1..Len(rules) :
              /\ \E n \in 1..Len(lines) : rules[k].id = prefix \o DecStr(n)
              /\ LineKind(lines[LineOf(k)]) = rules[k].type
              /\ split(lines[LineOf(k)])[2] = rules[k].field
        /\ \A j, k \in 1..Len(rules) :
              j < k => rules[j].id # rules[k].id /\ LineOf(j) < LineOf(k)

\* C4 as claimed: a rule's id equals the 1-based number of its source line.
C4_IdIsLineNumber == parsed # NotCalled => IdsFollowLines(<<>>)

\* C4 as amended: a rule's id is the letter r followed by the 1-based number of
\* its source line; skipped lines do not renumber later rules, ids are unique
\* and the rules are in increasing line order.
C4_IdIsRLineNumber == parsed # NotCalled => IdsFollowLines(<<"r">>)

C4_Witness ==
    /\ parsed # NotCalled
    /\ Len(splitlines(parse_req.law_text)) = 3
    /\ Len(parsed.rules) = 2
    /\ parsed.rules[1].id = <<"r", "1">>
    /\ parsed.rules[2].id = <<"r", "3">>

Scalar(v) == v.t \in {"bool", "int", "float", "str"}

\* C5. An equals rule over scalars passes iff data[field] has the type and the
\* value of the rule's scalar.
C5_StrictEquality ==
    evaluated # NotCalled =>
        \A k \in 1..Len(schema.rules) :
            LET rule == schema.rules[k]
            IN  (/\ rule.type = "equals"
                 /\ rule.field \in DOMAIN data
                 /\ Scalar(rule.value)
                 /\ Scalar(data[rule.field]))
                => (evaluated.results[k].passed <=>
                        /\ data[rule.field].t = rule.value.t
                        /\ data[rule.field] = rule.value)

\* C6. dcl_parse returns a schema in which a line of kind "none" has no rule
\* and every other line has exactly one rule, of the line's kind.
C6_LineClassification ==
    parsed # NotCalled =>
        LET lines == splitlines(parse_req.law_text)
            rules == parsed.rules
            Of(n) == {k \in 1..Len(rules) : rules[k].id = RuleId(n)}
        IN  /\ parsed.source_text = parse_req.law_text
            /\ \A k \in 1..Len(rules) : \E n \in 1..Len(lines) : k \in Of(n)
            /\ \A n \in 1..Len(lines) :
                  IF LineKind(lines[n]) = "none" THEN Of(n) = {}
                  ELSE /\ Cardinality(Of(n)) = 1
                       /\ \A k \in Of(n) : rules[k].type = LineKind(lines[n])

C6_Witness ==
    /\ parsed # NotCalled
    /\ Len(splitlines(parse_req.law_text)) = 3
    /\ Len(parsed.rules) = 2
    /\ parsed.rules[1].type = "required"
    /\ parsed.rules[1].id = <<"r", "2">>
    /\ parsed.rules[2].type = "min"

\* C7. A max or min rule fails when data[field] or the rule value is no number
\* (a missing or null field included); otherwise max passes iff data[field]
\* <= value and min passes iff data[field] >= value.
C7_MaxMinNumeric ==
    evaluated # NotCalled =>
        \A k \in 1..Len(schema.rules) :
            LET rule == schema.rules[k]
                passed == evaluated.results[k].passed
                actual == PyFloat(Get(data, rule.field))
                limit == PyFloat(rule.value)
            IN  rule.type \in {"max", "min"} =>
                /\ rule.field \notin DOMAIN data => ~passed
                /\ Get(data, rule.field) = NoneV => ~passed
                /\ ~actual.ok \/ ~limit.ok => ~passed
                /\ actual.ok /\ limit.ok =>
                      (passed <=> IF rule.type = "max"
                                  THEN FloatLe(actual.val, limit.val)
                                  ELSE FloatLe(limit.val, actual.val))

C7_Witness ==
    /\ evaluated # NotCalled
    /\ Len(schema.rules) = 2
    /\ schema.rules[1].type = "max" /\ schema.rules[1].value = IntV(5)
    /\ data = DataOf(IntV(5), Absent)
    /\ evaluated.results[1].passed
    /\ schema.rules[2].type = "min" /\ schema.rules[2].value = Abc
    /\ ~evaluated.results[2].passed

\* C8. A listing holds every saved record once, the most recently saved first.
C8_ListingNewestFirst ==
    req.pc = "listed" =>
        /\ Len(listing) = Len(saved)
        /\ \A k \in 1..Len(listing) : listing[k].id = saved[Len(saved) + 1 - k]
        /\ \A k \in 1..Len(listing) : listing[k] \in table

C8_Witness ==
    /\ req.pc = "listed"
    /\ Len(listing) = 2
    /\ listing[1].system_name # listing[2].system_name

\* C9. A rule of kind required, equals, max, min or in whose field the data
\* record lacks does not pass.
C9_AbsentFieldFails ==
    evaluated # NotCalled =>
        \A k \in 1..Len(schema.rules) :
            (/\ schema.rules[k].type \in {"required", "equals", "max", "min", "in"}
             /\ schema.rules[k].field \notin DOMAIN data)
            => ~evaluated.results[k].passed

Quotes == {"'", "\""}

\* The text is wrapped in a matching pair of quotes.
Wrapped(t) == Len(t) >= 2 /\ t[1] \in Quotes /\ t[Len(t)] = t[1]

\* C10. auto_cast returns, of the trimmed text: the boolean it spells, else the
\* integer, else the float, else the text inside a matching pair of quotes,
\* else the trimmed text itself.
C10_CastPrecedence ==
    cast_out # NotCalled =>
        LET t == strip(txt)
        IN  cast_out =
                IF lower(t) = <<"t", "r", "u", "e">> THEN BoolV(TRUE)
                ELSE IF lower(t) = <<"f", "a", "l", "s", "e">> THEN BoolV(FALSE)
                ELSE IF PyInt(t).ok THEN IntV(PyInt(t).val)
                ELSE IF PyFloatStr(t).ok THEN PyFloatStr(t).val
                ELSE IF Wrapped(t) THEN StrV(SubSeq(t, 2, Len(t) - 1))
                ELSE StrV(t)

====
